---- MODULE Spec2Model ----
(***************************************************************************)
(* A model of the permissivecsv Scanner: the line splitter                 *)
(* (internal/linesplit), the quote-aware index (internal/util), the        *)
(* bufio.Scanner loop that drives the splitter, the csv field parser the   *)
(* Scanner borrows, and the Scanner's Scan / Reset / Partition methods.    *)
(*                                                                         *)
(* A byte string is a sequence of one-character strings.  Go indices are   *)
(* kept 0-based, as in the source: Slice(s, i, j) is s[i:j].               *)
(***************************************************************************)
EXTENDS Integers, Sequences, FiniteSets, TLC

LF    == "\n"
CR    == "\r"
QUOTE == "\""
COMMA == ","

(* ---- bounds ---- *)
MaxLen   == 5
MaxLenP  == 3
MaxN     == 2
MaxPieces == 3
MaxLenQ  == 4
MaxLenR  == 4
MaxLenS  == 5

(* the bytes a source is made of *)
Alphabet == {"a", COMMA, QUOTE, LF, CR}

(* bufio.Scanner's initial buffer: a strings.Reader delivers a whole small  *)
(* source in one Read; a slower reader delivers 1 or 2 bytes per Read.      *)
startBufSize == 4096
ChunkSizes == {1, 2, startBufSize}

Min(a, b) == IF a < b THEN a ELSE b

(* s[i:j] with Go's 0-based, half-open indices *)
Slice(s, i, j) == SubSeq(s, i + 1, j)

HasPrefixAt(s, i, sub) ==
    /\ i + Len(sub) <= Len(s)
    /\ Slice(s, i, i + Len(sub)) = sub

HasSuffix(s, suf) ==
    /\ Len(suf) <= Len(s)
    /\ Slice(s, Len(s) - Len(suf), Len(s)) = suf

(* all byte strings of length 0..n over Alphabet *)
Strings(n) == UNION {[1..k -> Alphabet] : k \in 0..n}

(***************************************************************************)
(* internal/util                                                           *)
(***************************************************************************)
RECURSIVE IndexNonQuotedFrom(_, _, _, _)
IndexNonQuotedFrom(s, substr, i, quoteCount) ==
    IF i >= Len(s) \/ i + Len(substr) > Len(s) THEN -1
    ELSE LET qc == IF s[i + 1] = QUOTE THEN quoteCount + 1 ELSE quoteCount
         IN  IF qc % 2 = 0 /\ Slice(s, i, i + Len(substr)) = substr
             THEN i
             ELSE IndexNonQuotedFrom(s, substr, i + 1, qc)

IndexNonQuoted_QuotesIgnored(s, substr) ==
    LET I == {i \in 0..(Len(s) - Len(substr)) : Slice(s, i, i + Len(substr)) = substr}
    IN  IF I = {} THEN -1 ELSE CHOOSE i \in I : \A j \in I : i <= j

IndexNonQuoted_LastOccurrence(s, substr) ==
    LET I == {i \in 0..(Len(s) - Len(substr)) :
                 /\ Slice(s, i, i + Len(substr)) = substr
                 /\ Cardinality({j \in 1..i : s[j] = QUOTE}) % 2 = 0}
    IN  IF I = {} THEN -1 ELSE CHOOSE i \in I : \A j \in I : i >= j

IndexNonQuoted(s, substr) == IndexNonQuotedFrom(s, substr, 0, 0)

tokenNL == <<"L","I","N","E","F","E","E","D","7","5","4","0","c","6","4","c">>
tokenCR == <<"C","A","R","R","I","A","G","E","R","E","T","U","R","N",
             "a","1","c","d","e","9","f","4">>

(* strings.Replace(s, old, new, -1) for a non-empty old *)
RECURSIVE Replace(_, _, _)
Replace(s, old, new) ==
    IF Len(s) = 0 THEN <<>>
    ELSE IF HasPrefixAt(s, 0, old)
         THEN new \o Replace(Slice(s, Len(old), Len(s)), old, new)
         ELSE <<s[1]>> \o Replace(Slice(s, 1, Len(s)), old, new)

TokenizeTerminators(s) == Replace(Replace(s, <<LF>>, tokenNL), <<CR>>, tokenCR)

ResetTerminatorTokens(ss) ==
    [i \in 1..Len(ss) |-> Replace(Replace(ss[i], tokenNL, <<LF>>), tokenCR, <<CR>>)]

(***************************************************************************)
(* internal/linesplit                                                      *)
(***************************************************************************)
nl     == <<LF>>
cr     == <<CR>>
dos    == <<CR, LF>>
invdos == <<LF, CR>>

TerminatorKinds == {nl, cr, dos, invdos}

(* The result of one Split call.  tokenNil / termNil tell a nil slice from  *)
(* an empty one; err is "nil" or "ErrFinalToken"; terminator is the         *)
(* splitter's currentTerminator after the call.                             *)
SplitResult(advance, token, tokenNil, err, terminator, termNil) ==
    [advance |-> advance, token |-> token, tokenNil |-> tokenNil, err |-> err,
     terminator |-> terminator, termNil |-> termNil]

NeedMore == SplitResult(0, <<>>, TRUE, "nil", <<>>, TRUE)

(* Split once the four non-quoted first occurrences are known *)
SplitAt(data, atEOF, DOSIndex, invertedDOSIndex, newlineIndex, carriageReturnIndex) ==
    LET invSel == /\ invertedDOSIndex # -1
                  /\ newlineIndex = invertedDOSIndex
                  /\ carriageReturnIndex > newlineIndex
        near1  == IF invSel THEN invertedDOSIndex ELSE -1
        term1  == IF invSel THEN invdos ELSE <<>>
        dosSel == /\ DOSIndex # -1
                  /\ carriageReturnIndex = DOSIndex
                  /\ newlineIndex > carriageReturnIndex
                  /\ (near1 = -1 \/ DOSIndex < near1)
        near2  == IF dosSel THEN DOSIndex ELSE near1
        term2  == IF dosSel THEN dos ELSE term1
        near3  == IF newlineIndex # -1 THEN newlineIndex
                  ELSE IF carriageReturnIndex # -1 THEN carriageReturnIndex
                  ELSE -1
        term3  == IF newlineIndex # -1 THEN nl
                  ELSE IF carriageReturnIndex # -1 THEN cr
                  ELSE <<>>
    IN  IF near2 # -1
        THEN IF near2 = Len(data) - 2
             THEN NeedMore
             ELSE SplitResult(near2 + 2, Slice(data, 0, near2 + 2), FALSE,
                              "nil", term2, FALSE)
        ELSE IF near3 # -1
        THEN IF near3 = Len(data) - 1
             THEN NeedMore
             ELSE SplitResult(near3 + 1, Slice(data, 0, near3 + 1), FALSE,
                              "nil", term3, FALSE)
        ELSE IF ~atEOF
        THEN NeedMore
        ELSE SplitResult(0, data, FALSE, "ErrFinalToken", <<>>, FALSE)

Split_NoCarriageReturn(data, atEOF) ==
    SplitAt(data, atEOF, IndexNonQuoted(data, dos), IndexNonQuoted(data, invdos),
            IndexNonQuoted(data, nl), -1)

Split_EarlierSingleFirst(data, atEOF) ==
    SplitAt(data, atEOF, IndexNonQuoted(data, dos), IndexNonQuoted(data, invdos),
            IF /\ IndexNonQuoted(data, cr) # -1
               /\ IndexNonQuoted(data, cr) < IndexNonQuoted(data, nl)
            THEN -1 ELSE IndexNonQuoted(data, nl),
            IndexNonQuoted(data, cr))

Split_AlwaysAtEOF(data, atEOF) ==
    SplitAt(data, TRUE, IndexNonQuoted(data, dos), IndexNonQuoted(data, invdos),
            IndexNonQuoted(data, nl), IndexNonQuoted(data, cr))

Split(data, atEOF) ==
    SplitAt(data, atEOF, IndexNonQuoted(data, dos), IndexNonQuoted(data, invdos),
            IndexNonQuoted(data, nl), IndexNonQuoted(data, cr))

SplitData_NilAsEmpty(dataNil, data, atEOF) == Split(data, atEOF)

(* Split on a data slice that may be nil: string(nil) is the empty string,  *)
(* and at EOF the token is the nil slice and currentTerminator stays nil    *)
SplitData(dataNil, data, atEOF) ==
    IF dataNil
    THEN IF atEOF
         THEN SplitResult(0, <<>>, TRUE, "ErrFinalToken", <<>>, TRUE)
         ELSE NeedMore
    ELSE Split(data, atEOF)

(***************************************************************************)
(* encoding/csv: Reader.Read on one line that holds no line break (the     *)
(* Scanner replaces LF and CR by tokens first).  Default Reader settings:  *)
(* comma separator, no lazy quotes, no leading-space trimming.  err is      *)
(* "nil", "ErrBareQuote" (bare " in non-quoted-field) or "ErrQuote"        *)
(* (extraneous or missing " in quoted-field).                              *)
(***************************************************************************)
RECURSIVE IndexByteFrom(_, _, _)
IndexByteFrom(s, c, i) ==
    IF i >= Len(s) THEN -1
    ELSE IF s[i + 1] = c THEN i
    ELSE IndexByteFrom(s, c, i + 1)

IndexByte(s, c) == IndexByteFrom(s, c, 0)

RECURSIVE csvParseField(_, _)
RECURSIVE csvParseQuoted(_, _, _)
csvParseField(line, fields) ==
    IF Len(line) = 0 \/ line[1] # QUOTE
    THEN (* non-quoted field *)
         LET i     == IndexByte(line, COMMA)
             field == IF i >= 0 THEN Slice(line, 0, i) ELSE line
         IN  IF IndexByte(field, QUOTE) >= 0
             THEN [record |-> fields, err |-> "ErrBareQuote"]
             ELSE IF i >= 0
             THEN csvParseField(Slice(line, i + 1, Len(line)), Append(fields, field))
             ELSE [record |-> Append(fields, field), err |-> "nil"]
    ELSE (* quoted field *)
         csvParseQuoted(Slice(line, 1, Len(line)), fields, <<>>)

csvParseQuoted(line, fields, cur) ==
    LET i == IndexByte(line, QUOTE)
    IN  IF i >= 0
        THEN LET cur1 == cur \o Slice(line, 0, i)
                 rest == Slice(line, i + 1, Len(line))
             IN  IF Len(rest) > 0 /\ rest[1] = QUOTE
                 THEN csvParseQuoted(Slice(rest, 1, Len(rest)), fields, Append(cur1, QUOTE))
                 ELSE IF Len(rest) > 0 /\ rest[1] = COMMA
                 THEN csvParseField(Slice(rest, 1, Len(rest)), Append(fields, cur1))
                 ELSE IF Len(rest) = 0
                 THEN [record |-> Append(fields, cur1), err |-> "nil"]
                 ELSE [record |-> fields, err |-> "ErrQuote"]
        ELSE (* the line ends inside the quoted field: abrupt end of input *)
             [record |-> fields, err |-> "ErrQuote"]

csvRead(text) == csvParseField(text, <<>>)

IsExtraneousQuoteError_Never(err) == FALSE

IsExtraneousQuoteError(err) == err = "ErrQuote"
IsBareQuoteError(err) == err = "ErrBareQuote"

(***************************************************************************)
(* The Scanner                                                             *)
(***************************************************************************)
AltBareQuote       == "bare quote"
AltExtraneousQuote == "extraneous quote"
AltTruncatedRecord == "truncated record"
AltPaddedRecord    == "padded record"

ErrReaderIsNil == "reader is nil"

HeaderCheckAssumeNoHeader(firstRecord, firstRecordNil) == FALSE
HeaderCheckAssumeHeaderExists(firstRecord, firstRecordNil) == ~firstRecordNil

VARIABLES
    src,        \* the bytes of the source behind the reader
    chunk,      \* how many bytes the reader hands over per Read, at most
    w,          \* w.s: the Scanner struct; w.pos: the reader's position
    ret,        \* what the last call returned: "none", "true", "false"
    emitted,    \* the records made current by Scan calls that returned true
    segments,   \* what the last Partition call returned
    op,         \* the last method called: "new", "scan", "reset", "partition"
    args,       \* the arguments of the last Partition call
    readErr,    \* how many bytes the reader delivers before its Read returns
                \* an error; -1 for a reader that delivers the whole source
    call        \* the last direct call of a function of internal/linesplit or
                \* internal/util: its name, its arguments and its result

vars == <<src, chunk, w, ret, emitted, segments, op, args, readErr, call>>

(* a nil *ScanSummary *)
NilSummary ==
    [isNil |-> TRUE, RecordCount |-> 0, AlterationCount |-> 0,
     Alterations |-> <<>>, EOF |-> FALSE, Err |-> "nil"]

(* &ScanSummary{Alterations: []*Alteration{}} *)
NewSummary == [NilSummary EXCEPT !.isNil = FALSE]

NewScanner(r, headerCheck) ==
    [headerCheck        |-> headerCheck,
     reader             |-> r,
     currentRecord      |-> <<>>,
     currentRecordNil   |-> TRUE,
     expectedFieldCount |-> 0,
     recordsScanned     |-> 0,
     scanSummary        |-> NilSummary,
     firstRecord        |-> <<>>,
     firstRecordNil     |-> TRUE,
     bytesUnclaimed     |-> 0,
     scanner            |-> [buf |-> <<>>, err |-> FALSE, done |-> FALSE,
                             token |-> <<>>, tokenNil |-> TRUE],
     splitter           |-> [currentTerminator |-> <<>>, termNil |-> TRUE]]

(* bufio.Scanner.Scan: hand the window to Split, read more when Split asks  *)
(* for more, stop when the reader is exhausted.                             *)
RECURSIVE BufioLoop(_)
RECURSIVE BufioFill(_)
(* what the scanner does with the answer r of the split function *)
BufioSplit(x, r) ==
    LET sp == [currentTerminator |-> r.terminator, termNil |-> r.termNil]
        x1 == [x EXCEPT !.s.scanner.buf = Slice(@, r.advance, Len(@)),
                        !.s.scanner.token = r.token,
                        !.s.scanner.tokenNil = r.tokenNil,
                        !.s.splitter = sp]
    IN  IF r.err = "ErrFinalToken"
        THEN [w   |-> [x EXCEPT !.s.scanner.token = r.token,
                                !.s.scanner.tokenNil = r.tokenNil,
                                !.s.scanner.done = TRUE,
                                !.s.splitter = sp],
              ret |-> ~r.tokenNil]
        ELSE IF ~r.tokenNil
        THEN [w |-> x1, ret |-> TRUE]
        ELSE BufioFill(x1)

BufioLoop(x) ==
    IF Len(x.s.scanner.buf) > 0 \/ x.s.scanner.err
    THEN BufioSplit(x, Split(x.s.scanner.buf, x.s.scanner.err))
    ELSE BufioFill(x)

(* how many bytes of the source the reader hands over before Read returns   *)
(* io.EOF or the reader's own error                                         *)
ReadLimit == IF readErr = -1 THEN Len(src) ELSE readErr

(* the bytes one Read call delivers from position pos; none when Read       *)
(* returns an error                                                         *)
Read(pos) == Slice(src, pos, pos + Min(chunk, ReadLimit - pos))

BufioFill(x) ==
    IF x.s.scanner.err
    THEN [w |-> [x EXCEPT !.s.scanner.buf = <<>>], ret |-> FALSE]
    ELSE IF Read(x.pos) = <<>>
    THEN BufioLoop([x EXCEPT !.s.scanner.err = TRUE])
    ELSE BufioLoop([x EXCEPT !.s.scanner.buf = @ \o Read(x.pos),
                             !.pos = @ + Len(Read(x.pos))])

BufioScan(x) ==
    IF x.s.scanner.done
    THEN [w |-> x, ret |-> FALSE]
    ELSE BufioLoop(x)

(* bufio.Scanner.Text *)
Text(x) == x.s.scanner.token

Alteration(ordinal, originalText, record, description) ==
    [RecordOrdinal         |-> ordinal,
     OriginalData          |-> originalText,
     ResultingRecord       |-> record,
     AlterationDescription |-> description]

appendAlteration_CountKept(s, originalText, record, description) ==
    [s EXCEPT !.scanSummary.Alterations =
                  Append(@, Alteration(s.scanSummary.RecordCount, originalText,
                                       record, description))]

appendAlteration_OrdinalOfAlteration(s, originalText, record, description) ==
    [s EXCEPT !.scanSummary.AlterationCount = @ + 1,
              !.scanSummary.Alterations =
                  Append(@, Alteration(s.scanSummary.AlterationCount + 1, originalText,
                                       record, description))]

appendAlteration(s, originalText, record, description) ==
    [s EXCEPT !.scanSummary.AlterationCount = @ + 1,
              !.scanSummary.Alterations =
                  Append(@, Alteration(s.scanSummary.RecordCount, originalText,
                                       record, description))]

SkipEmptyRecords_None(r) == r

(* the loop of Scan that consumes raw records made of a terminator only;   *)
(* r is the scanner with the answer of its last s.scanner.Scan()            *)
RECURSIVE SkipEmptyRecords(_)
SkipEmptyRecords(r) ==
    IF Text(r.w) = r.w.s.splitter.currentTerminator /\ r.ret
    THEN SkipEmptyRecords(BufioScan(
             [r.w EXCEPT !.s.bytesUnclaimed = @ + Len(r.w.s.splitter.currentTerminator)]))
    ELSE r

(* make([]string, n): n empty strings *)
Blank(n) == [i \in 1..n |-> <<>>]

TrimTerminator_KeepsTerminator(rawRecord, currentTerminator) == rawRecord

(* the payload of a raw record: the raw record without its terminator *)
TrimTerminator(rawRecord, currentTerminator) ==
    IF Len(currentTerminator) > 0 /\ HasSuffix(rawRecord, currentTerminator)
    THEN Slice(rawRecord, 0, Len(rawRecord) - Len(currentTerminator))
    ELSE rawRecord

ParsedFields_KeptOnError(parsed) ==
    [record |-> ResetTerminatorTokens(parsed.record), err |-> parsed.err]

(* the fields of a payload and the error of the csv reader, "nil" if none;  *)
(* a payload the csv reader rejects has no fields                           *)
ParsedFields(parsed) ==
    [record |-> ResetTerminatorTokens(
                    IF parsed.err # "nil" THEN <<>> ELSE parsed.record),
     err    |-> parsed.err]

ParsePayload(trimmedRawRecord) ==
    IF trimmedRawRecord = <<>>
    THEN [record |-> << <<>> >>, err |-> "nil"]
    ELSE ParsedFields(csvRead(TokenizeTerminators(trimmedRawRecord)))

ExpectedFieldCount_OfEveryRecord(recordsScanned, expectedFieldCount, record) ==
    Len(record)

(* the expected field count once this record is counted *)
ExpectedFieldCount(recordsScanned, expectedFieldCount, record) ==
    IF recordsScanned = 1 THEN Len(record) ELSE expectedFieldCount

Reconcile_PadOnly(record, expectedFieldCount) ==
    IF Len(record) < expectedFieldCount
    THEN record \o Blank(expectedFieldCount - Len(record))
    ELSE record

(* truncate or pad the record to the expected field count *)
Reconcile(record, expectedFieldCount) ==
    IF Len(record) > expectedFieldCount
    THEN Slice(record, 0, expectedFieldCount)
    ELSE IF Len(record) < expectedFieldCount
    THEN record \o Blank(expectedFieldCount - Len(record))
    ELSE record

AlterationKind_WidthFirst(extraneousQuoteEncountered, bareQuoteEncountered, recordTruncated, recordPadded) ==
    IF recordTruncated THEN AltTruncatedRecord
    ELSE IF recordPadded THEN AltPaddedRecord
    ELSE IF extraneousQuoteEncountered THEN AltExtraneousQuote
    ELSE IF bareQuoteEncountered THEN AltBareQuote
    ELSE "none"

(* the one alteration a record is reported with, "none" if it has none *)
AlterationKind(extraneousQuoteEncountered, bareQuoteEncountered, recordTruncated, recordPadded) ==
    IF extraneousQuoteEncountered THEN AltExtraneousQuote
    ELSE IF bareQuoteEncountered THEN AltBareQuote
    ELSE IF recordTruncated THEN AltTruncatedRecord
    ELSE IF recordPadded THEN AltPaddedRecord
    ELSE "none"

CountRecord_Twice(summary) == [summary EXCEPT !.RecordCount = @ + 2]

CountRecord(summary) == [summary EXCEPT !.RecordCount = @ + 1]

FirstRecordNil_NeverCleared(recordsScanned) == FALSE

(* whether Scan leaves firstRecord nil: it keeps the first record only *)
FirstRecordNil(recordsScanned) == recordsScanned # 1

(* the part of Scan that follows field parsing: reconcile the width, store *)
(* the record, record the alteration                                        *)
EmitParsed(x, trimmedRawRecord, parsed) ==
    LET s1 == [x.s EXCEPT !.scanSummary = CountRecord(@)]
        recordsScanned     == s1.recordsScanned + 1
        expectedFieldCount == ExpectedFieldCount(recordsScanned, s1.expectedFieldCount,
                                                 parsed.record)
        record == Reconcile(parsed.record, expectedFieldCount)
        kind   == AlterationKind(IsExtraneousQuoteError(parsed.err),
                                 IsBareQuoteError(parsed.err),
                                 Len(parsed.record) > expectedFieldCount,
                                 Len(parsed.record) < expectedFieldCount)
        s2 == [s1 EXCEPT !.recordsScanned = recordsScanned,
                         !.expectedFieldCount = expectedFieldCount,
                         !.currentRecord = record,
                         !.currentRecordNil = FALSE,
                         !.firstRecord = IF recordsScanned = 1 THEN record ELSE <<>>,
                         !.firstRecordNil = FirstRecordNil(recordsScanned)]
    IN  [x EXCEPT !.s = IF kind # "none"
                        THEN appendAlteration(s2, trimmedRawRecord, record, kind)
                        ELSE s2]

EmitTrimmed(x, trimmedRawRecord) ==
    EmitParsed(x, trimmedRawRecord, ParsePayload(trimmedRawRecord))

(* the part of Scan that follows the empty-record loop: count the record,   *)
(* parse the payload, reconcile the width, store the record, record the     *)
(* alteration                                                               *)
EmitRecord(x) ==
    EmitTrimmed(x, TrimTerminator(Text(x), x.s.splitter.currentTerminator))

NilReaderSummary_ErrOnly(summary) ==
    [summary EXCEPT !.Err = ErrReaderIsNil]

(* the summary Scan leaves when the reader is nil *)
NilReaderSummary(summary) ==
    [summary EXCEPT !.Err = ErrReaderIsNil,
                    !.RecordCount = -1,
                    !.AlterationCount = -1,
                    !.EOF = FALSE]

ScanSkipped_AlwaysEmits(sk) ==
    [w |-> EmitRecord(sk.w), ret |-> TRUE]

(* Scan after the empty-record loop; sk is the scanner with the answer of   *)
(* its last s.scanner.Scan()                                                *)
ScanSkipped(sk) ==
    IF Text(sk.w) = <<>> /\ Len(sk.w.s.splitter.currentTerminator) = 0
    THEN [w |-> sk.w, ret |-> FALSE]
    ELSE [w |-> EmitRecord(sk.w), ret |-> TRUE]

(* Scan after its first s.scanner.Scan() *)
ScanFirst(first) ==
    IF ~first.ret
    THEN [w |-> [first.w EXCEPT !.s.scanSummary.EOF = TRUE], ret |-> FALSE]
    ELSE ScanSkipped(SkipEmptyRecords(first))

(* Scan once the summary exists *)
ScanSummarised(x) ==
    IF x.s.reader = "nil"
    THEN [w |-> [x EXCEPT !.s.scanSummary = NilReaderSummary(@)], ret |-> FALSE]
    ELSE ScanFirst(BufioScan(x))

(* Scanner.Scan as a function of the scanner and its reader: the new state  *)
(* and the value returned                                                   *)
ScanOp(x) ==
    ScanSummarised(IF x.s.scanSummary.isNil
                   THEN [x EXCEPT !.s.scanSummary = NewSummary]
                   ELSE x)

Bool(b) == IF b THEN "true" ELSE "false"

(* a Scan call that ends with the state and the return value of r *)
ScanReturns(r) ==
    /\ w' = r.w
    /\ ret' = Bool(r.ret)
    /\ emitted' = IF r.ret THEN Append(emitted, r.w.s.currentRecord) ELSE emitted
    /\ op' = "scan"
    /\ UNCHANGED <<src, chunk, segments, args, readErr, call>>

Scan == ScanReturns(ScanOp(w))

(* Scanner.Reset: the new Scanner is assigned to the method's own copy of   *)
(* the receiver pointer, so the Scanner the caller holds keeps every field. *)
ResetOp(x) == x

RecordIsHeader(s) ==
    IF s.headerCheck = "AssumeHeaderExists"
    THEN HeaderCheckAssumeHeaderExists(s.firstRecord, s.firstRecordNil)
    ELSE HeaderCheckAssumeNoHeader(s.firstRecord, s.firstRecordNil)

Segment_ZeroBased(ordinal, lowerOffset, length) ==
    [Ordinal |-> ordinal - 1, LowerOffset |-> lowerOffset, Length |-> length]

Segment(ordinal, lowerOffset, length) ==
    [Ordinal |-> ordinal, LowerOffset |-> lowerOffset, Length |-> length]

(* the local variables of Partition at the top of its loop; emitted lists   *)
(* the records its Scan calls made current                                  *)
PartitionLocals ==
    [ordinal |-> 0, lowerOffset |-> 0, segments |-> <<>>,
     headerEvaluated |-> FALSE, currentRawRecord |-> <<>>,
     recordsInCurrentSegment |-> 0, emitted |-> <<>>]

ExcludesHeader_Never(headerEvaluated, excludeHeader, isHeader) == FALSE

(* whether the record just scanned is the header Partition leaves out *)
ExcludesHeader(headerEvaluated, excludeHeader, isHeader) ==
    ~headerEvaluated /\ excludeHeader /\ isHeader

HeaderOffset_Zero(text, bytesUnclaimed) == 0

(* the offset of the first segment behind an excluded header *)
HeaderOffset(text, bytesUnclaimed) == Len(text) + bytesUnclaimed

SegmentFull(recordsInCurrentSegment, n) == recordsInCurrentSegment = n

SegmentLength_RecordsOnly(currentRawRecord, bytesUnclaimed) == Len(currentRawRecord)

SegmentLength(currentRawRecord, bytesUnclaimed) ==
    Len(currentRawRecord) + bytesUnclaimed

(* one turn of the loop of Partition for a record s.Scan() made current:    *)
(* the scanner and the local variables at the top of the next turn         *)
PartitionTurn(r, n, excludeHeader, p) ==
    LET pe == [p EXCEPT !.emitted = Append(@, r.w.s.currentRecord)]
    IN  IF ExcludesHeader(pe.headerEvaluated, excludeHeader, RecordIsHeader(r.w.s))
        THEN [w |-> [r.w EXCEPT !.s.bytesUnclaimed = 0],
              p |-> [pe EXCEPT !.headerEvaluated = TRUE,
                               !.lowerOffset = HeaderOffset(Text(r.w),
                                                            r.w.s.bytesUnclaimed)]]
        ELSE LET p1 == IF ~pe.headerEvaluated
                       THEN [pe EXCEPT !.headerEvaluated = TRUE, !.lowerOffset = 0]
                       ELSE pe
                 close  == SegmentFull(p1.recordsInCurrentSegment, n)
                 length == SegmentLength(p1.currentRawRecord, r.w.s.bytesUnclaimed)
                 p2 == IF close
                       THEN [p1 EXCEPT !.ordinal = @ + 1,
                                       !.segments = Append(@,
                                           Segment(p1.ordinal + 1, p1.lowerOffset, length)),
                                       !.lowerOffset = @ + length,
                                       !.recordsInCurrentSegment = 0,
                                       !.currentRawRecord = <<>>]
                       ELSE p1
             IN  [w |-> IF close THEN [r.w EXCEPT !.s.bytesUnclaimed = 0] ELSE r.w,
                  p |-> [p2 EXCEPT !.currentRawRecord = @ \o Text(r.w),
                                   !.recordsInCurrentSegment = @ + 1]]

(* what Partition returns when s.Scan() has returned false: the segment    *)
(* under construction is closed if it holds a record                       *)
PartitionExit(r, p) ==
    IF p.recordsInCurrentSegment > 0
    THEN [w        |-> [r.w EXCEPT !.s.bytesUnclaimed = 0],
          emitted  |-> p.emitted,
          segments |-> Append(p.segments,
                          Segment(p.ordinal + 1, p.lowerOffset,
                                  SegmentLength(p.currentRawRecord,
                                                r.w.s.bytesUnclaimed)))]
    ELSE [w |-> r.w, emitted |-> p.emitted, segments |-> p.segments]

RECURSIVE PartitionLoop(_, _, _, _)
PartitionNext(t, n, excludeHeader) == PartitionLoop(t.w, n, excludeHeader, t.p)

(* the loop of Partition from the answer r of its s.Scan()                  *)
PartitionStep(r, n, excludeHeader, p) ==
    IF ~r.ret
    THEN PartitionExit(r, p)
    ELSE PartitionNext(PartitionTurn(r, n, excludeHeader, p), n, excludeHeader)

PartitionLoop(x, n, excludeHeader, p) ==
    PartitionStep(ScanOp(x), n, excludeHeader, p)

PartitionOp(x, n, excludeHeader) ==
    PartitionLoop(ResetOp(x), n, excludeHeader, PartitionLocals)

Reset ==
    /\ op # "reset"
    /\ w' = ResetOp(w)
    /\ op' = "reset"
    /\ UNCHANGED <<src, chunk, ret, emitted, segments, args, readErr, call>>

(* a Partition call that ends with the state and the segments of r; the    *)
(* s.Scan() that ended its loop returned false                              *)
PartitionReturns(r, n, excludeHeader) ==
    /\ w' = r.w
    /\ args' = [n |-> n, excludeHeader |-> excludeHeader]
    /\ op' = "partition"
    /\ ret' = "false"
    /\ emitted' = emitted \o r.emitted
    /\ segments' = r.segments
    /\ UNCHANGED <<src, chunk, readErr, call>>

Partition ==
    \E n \in 1..MaxN, excludeHeader \in BOOLEAN :
        PartitionReturns(PartitionOp(w, n, excludeHeader), n, excludeHeader)

HeaderChecks == {"AssumeNoHeader", "AssumeHeaderExists"}

(* a scanner fresh from NewScanner, over a nil reader or over a reader of   *)
(* one of the sources                                                       *)
InitFrom(sources, chunks, headerChecks, readErrs) ==
    /\ \/ /\ src \in sources
          /\ chunk \in chunks
          /\ readErr \in {e \in readErrs : e <= Len(src)}
          /\ \E h \in headerChecks : w = [s |-> NewScanner("ok", h), pos |-> 0]
       \/ /\ src = <<>>
          /\ chunk = startBufSize
          /\ readErr = -1
          /\ \E h \in headerChecks : w = [s |-> NewScanner("nil", h), pos |-> 0]
    /\ op = "new"
    /\ ret = "none"
    /\ emitted = <<>>
    /\ segments = <<>>
    /\ args = [n |-> 0, excludeHeader |-> FALSE]
    /\ call = [fn |-> "none"]

Init == InitFrom(Strings(MaxLen), ChunkSizes, {"AssumeNoHeader"}, {-1})
Next == Scan
Spec == Init /\ [][Next]_vars

(* scanning mixed with Reset and Partition, over shorter sources *)
InitP == InitFrom(Strings(MaxLenP), ChunkSizes, HeaderChecks, {-1})
NextP == Scan \/ Reset \/ Partition
SpecP == InitP /\ [][NextP]_vars

(* Partition, called once or again and again *)
InitQ == InitFrom(Strings(MaxLenQ), ChunkSizes, HeaderChecks, {-1})
NextQ == Partition
SpecQ == InitQ /\ [][NextQ]_vars

(* scanning through a reader whose Read returns an error of its own once it *)
(* has delivered readErr bytes, next to readers that deliver everything     *)
ReadErrs == -1..MaxLenR

InitR == InitFrom(Strings(MaxLenR), ChunkSizes, {"AssumeNoHeader"}, ReadErrs)
NextR == Scan
SpecR == InitR /\ [][NextR]_vars

(* direct calls of Splitter.Split and of util.IndexNonQuoted on the bytes   *)
(* of a source                                                              *)
CallSplit ==
    \E atEOF \in BOOLEAN, dataNil \in BOOLEAN :
        /\ dataNil => src = <<>>
        /\ call' = [fn |-> "Split", data |-> src, dataNil |-> dataNil,
                    atEOF |-> atEOF, result |-> SplitData(dataNil, src, atEOF)]
        /\ UNCHANGED <<src, chunk, w, ret, emitted, segments, op, args, readErr>>

CallIndexNonQuoted ==
    \E substr \in TerminatorKinds :
        /\ call' = [fn |-> "IndexNonQuoted", s |-> src, substr |-> substr,
                    result |-> IndexNonQuoted(src, substr)]
        /\ UNCHANGED <<src, chunk, w, ret, emitted, segments, op, args, readErr>>

InitS == InitFrom(Strings(MaxLenS), {startBufSize}, {"AssumeNoHeader"}, {-1})
NextS == CallSplit \/ CallIndexNonQuoted
SpecS == InitS /\ [][NextS]_vars

(* scanning sources in which the placeholder texts of util occur as data,   *)
(* each delivered by one Read                                               *)
Pieces == {tokenNL, tokenCR, <<"a">>, <<COMMA>>, <<LF>>}

RECURSIVE Concat(_)
Concat(ps) == IF ps = <<>> THEN <<>> ELSE Head(ps) \o Concat(Tail(ps))

PieceStrings(n) == {Concat(ps) : ps \in UNION {[1..k -> Pieces] : k \in 0..n}}

InitT == InitFrom(PieceStrings(MaxPieces), {startBufSize}, {"AssumeNoHeader"}, {-1})
NextT == Scan
SpecT == InitT /\ [][NextT]_vars

(***************************************************************************)
(* direct calls of util.TokenizeTerminators and util.ResetTerminatorTokens *)
(* on text built from the placeholders and from ordinary bytes: the text   *)
(* is tokenized, and the tokenized text is handed to                       *)
(* ResetTerminatorTokens as a one-element list                             *)
(***************************************************************************)
CallTokenizeTerminators ==
    /\ call' = [fn |-> "TokenizeTerminators", s |-> src,
                result |-> TokenizeTerminators(src)]
    /\ UNCHANGED <<src, chunk, w, ret, emitted, segments, op, args, readErr>>

CallResetTerminatorTokens ==
    /\ call.fn = "TokenizeTerminators"
    /\ call' = [fn |-> "ResetTerminatorTokens", s |-> call.s, ss |-> <<call.result>>,
                result |-> ResetTerminatorTokens(<<call.result>>)]
    /\ UNCHANGED <<src, chunk, w, ret, emitted, segments, op, args, readErr>>

InitU == InitFrom(PieceStrings(MaxPieces) \cup Strings(MaxLenP), {startBufSize},
                  {"AssumeNoHeader"}, {-1})
NextU == CallTokenizeTerminators \/ CallResetTerminatorTokens
SpecU == InitU /\ [][NextU]_vars

(***************************************************************************)
(* Scan and Partition loop by loop.  A call in progress (op is "scanning"  *)
(* or "partitioning") keeps its local variables in call, together with the *)
(* scanner x it was entered with.  A Scan call is entered up to its first  *)
(* s.scanner.Scan(), takes one step for each turn of the loop that skips   *)
(* empty records, and returns; a Partition call is entered, takes one step *)
(* for each s.Scan() of its loop, and returns with the one that is false.  *)
(***************************************************************************)
Idle == op \notin {"scanning", "partitioning"}

(* the condition of the loop that skips empty records *)
SkipsRecord(x, more) == Text(x) = x.s.splitter.currentTerminator /\ more

ScanSkipTurn_Stuck(x) == [w |-> x, ret |-> TRUE]

(* the body of the loop that skips empty records *)
ScanSkipTurn(x) ==
    BufioScan([x EXCEPT !.s.bytesUnclaimed = @ + Len(x.s.splitter.currentTerminator)])

ScanEntered(x, first) ==
    /\ w' = first.w
    /\ call' = [fn |-> "Scan", x |-> x, more |-> first.ret, looped |-> FALSE]
    /\ op' = "scanning"
    /\ UNCHANGED <<src, chunk, ret, emitted, segments, args, readErr>>

ScanBegin ==
    /\ Idle
    /\ IF w.s.reader = "nil"
       THEN \E r \in {ScanOp(w)} : ScanReturns(r)
       ELSE \E first \in {BufioScan(IF w.s.scanSummary.isNil
                                     THEN [w EXCEPT !.s.scanSummary = NewSummary]
                                     ELSE w)} : ScanEntered(w, first)

ScanSkipped_(x, r) ==
    /\ w' = r.w
    /\ call' = [call EXCEPT !.more = r.ret, !.looped = TRUE]
    /\ UNCHANGED <<src, chunk, ret, emitted, segments, op, args, readErr>>

ScanSkip ==
    /\ op = "scanning"
    /\ SkipsRecord(w, call.more)
    /\ \E r \in {ScanSkipTurn(w)} : ScanSkipped_(w, r)

ScanEnd ==
    /\ op = "scanning"
    /\ ~SkipsRecord(w, call.more)
    /\ \E r \in {IF call.looped
                   THEN ScanSkipped([w |-> w, ret |-> call.more])
                   ELSE ScanFirst([w |-> w, ret |-> call.more])} : ScanReturns(r)

PartitionBegin ==
    \E n \in 1..MaxN, excludeHeader \in BOOLEAN :
        /\ Idle
        /\ w' = ResetOp(w)
        /\ call' = [fn |-> "Partition", x |-> w, n |-> n, excludeHeader |-> excludeHeader,
                    p |-> PartitionLocals]
        /\ op' = "partitioning"
        /\ UNCHANGED <<src, chunk, ret, emitted, segments, args, readErr>>

PartitionTurned(t) ==
    /\ w' = t.w
    /\ call' = [call EXCEPT !.p = t.p]
    /\ UNCHANGED <<src, chunk, ret, emitted, segments, op, args, readErr>>

PartitionScanned(r) ==
    IF r.ret
    THEN \E t \in {PartitionTurn(r, call.n, call.excludeHeader, call.p)} :
             PartitionTurned(t)
    ELSE \E e \in {PartitionExit(r, call.p)} :
             PartitionReturns(e, call.n, call.excludeHeader)

PartitionScan ==
    /\ op = "partitioning"
    /\ \E r \in {ScanOp(w)} : PartitionScanned(r)

(* the sources are delivered one byte for each Read or in one Read *)
InitL == InitFrom(Strings(MaxLenP), {1, startBufSize}, HeaderChecks, {-1})
NextL == ScanBegin \/ ScanSkip \/ ScanEnd \/ PartitionBegin \/ PartitionScan

(* A call in progress goes on, the code between two steps being sequential: *)
(* WF_vars(ScanSkip \/ ScanEnd) and WF_vars(PartitionScan), written out     *)
(* with the state predicate that ENABLED equals here.  A call in progress   *)
(* can take its next step, and that step changes the state: ScanEnd and the *)
(* last PartitionScan change op, any other PartitionScan lengthens          *)
(* call.p.emitted, and ScanSkip changes w or call.more (SkipAdvances).      *)
ScanGoesOn == []<>(op # "scanning") \/ []<><<ScanSkip \/ ScanEnd>>_vars
PartitionGoesOn == []<>(op # "partitioning") \/ []<><<PartitionScan>>_vars
FairL == ScanGoesOn /\ PartitionGoesOn
SpecL == InitL /\ [][NextL]_vars /\ FairL

(***************************************************************************)
(* Properties                                                              *)
(***************************************************************************)
Summary == w.s.scanSummary
Alterations == w.s.scanSummary.Alterations
ReaderIsNil == w.s.reader = "nil"

(* the payload of the record the last successful Scan made current *)
Payload(x) == TrimTerminator(Text(x), x.s.splitter.currentTerminator)

IsPrefix(a, b) == Len(a) <= Len(b) /\ SubSeq(b, 1, Len(a)) = a

QuoteKinds == {AltBareQuote, AltExtraneousQuote}

(* C1: every record emitted has as many fields as the first record emitted, *)
(* and the expected field count stays the width of the first record.        *)
C1_FieldCountFixed ==
    \A i \in 1..Len(emitted) :
        /\ Len(emitted[i]) = Len(emitted[1])
        /\ w.s.expectedFieldCount = Len(emitted[1])

C1_Witness ==
    /\ Len(emitted) >= 2
    /\ \E i \in 1..Len(Alterations) :
           Alterations[i].AlterationDescription = AltTruncatedRecord

(* C3: on a non-nil source RecordCount is the number of Scan calls that     *)
(* returned true: it grows by one on a true return and keeps its value on   *)
(* a false return.                                                          *)
C3_CountStep ==
    LET before == IF Summary.isNil THEN 0 ELSE Summary.RecordCount
    IN  ~ReaderIsNil =>
            /\ ret' = "true"  => Summary'.RecordCount = before + 1
            /\ ret' = "false" => Summary'.RecordCount = before

C3_RecordCount ==
    /\ []((~ReaderIsNil /\ ~Summary.isNil) => Summary.RecordCount = Len(emitted))
    /\ [][C3_CountStep]_vars

C3_Witness ==
    /\ ret = "false"
    /\ Summary.RecordCount >= 2
    /\ Summary.EOF

(* C4, as claimed: whenever the summary is not nil, AlterationCount is the  *)
(* number of entries of Alterations.                                        *)
C4_CountIsLength ==
    ~Summary.isNil => Summary.AlterationCount = Len(Summary.Alterations)

(* C4, amended: on a non-nil source, whenever the summary is not nil,       *)
(* AlterationCount is the number of entries of Alterations.                 *)
C4_CountIsLengthNonNilSource ==
    (~ReaderIsNil /\ ~Summary.isNil) =>
        Summary.AlterationCount = Len(Summary.Alterations)

C4_Witness ==
    /\ ~ReaderIsNil
    /\ Summary.AlterationCount >= 2

(* C5: a record after the first whose payload parses into fields f is       *)
(* emitted as the first w fields of f with one 'truncated record'           *)
(* alteration if |f| > w, as f followed by w - |f| empty fields with one    *)
(* 'padded record' alteration if |f| < w, and as f with no alteration if    *)
(* |f| = w, where w is the expected field count.                            *)
C5_Step ==
    (ret' = "true" /\ Len(emitted) >= 1) =>
        LET parsed == ParsePayload(Payload(w'))
            f      == parsed.record
            wd     == w.s.expectedFieldCount
            rec    == w'.s.currentRecord
            old    == Alterations
            new    == Alterations'
            one(kind) == /\ Len(new) = Len(old) + 1
                         /\ IsPrefix(old, new)
                         /\ new[Len(new)].AlterationDescription = kind
                         /\ new[Len(new)].ResultingRecord = rec
        IN  parsed.err = "nil" =>
                /\ Len(f) > wd => (rec = SubSeq(f, 1, wd) /\ one(AltTruncatedRecord))
                /\ Len(f) < wd => /\ rec = f \o [i \in 1..(wd - Len(f)) |-> <<>>]
                                  /\ one(AltPaddedRecord)
                /\ Len(f) = wd => (rec = f /\ new = old)

C5_WidthReconciliation == [][C5_Step]_vars

(* a record after the first was padded with an empty field *)
C5_Witness ==
    /\ Len(emitted) >= 2
    /\ \E i \in 1..Len(Alterations) :
           /\ Alterations[i].AlterationDescription = AltPaddedRecord
           /\ Alterations[i].ResultingRecord = <<<<"a">>, <<>>>>

(* C6: a record whose payload the field parser rejects with a bare-quote or *)
(* extraneous-quote error is emitted as expected_field_count empty fields,  *)
(* and the alteration appended for it keeps the payload as OriginalData.    *)
C6_Step ==
    ret' = "true" =>
        LET payload == Payload(w')
            err     == csvRead(TokenizeTerminators(payload)).err
            rec     == w'.s.currentRecord
            old     == Alterations
            new     == Alterations'
        IN  err \in {"ErrBareQuote", "ErrQuote"} =>
                /\ Len(rec) = w'.s.expectedFieldCount
                /\ \A i \in 1..Len(rec) : rec[i] = <<>>
                /\ Len(new) = Len(old) + 1
                /\ new[Len(new)].OriginalData = payload
                /\ new[Len(new)].AlterationDescription \in QuoteKinds

C6_QuoteNullifies == [][C6_Step]_vars

C6_Witness ==
    /\ w.s.expectedFieldCount >= 2
    /\ \E i \in 1..Len(Alterations) :
           /\ Alterations[i].AlterationDescription \in QuoteKinds
           /\ Alterations[i].RecordOrdinal >= 2
           /\ Len(Alterations[i].OriginalData) >= 2

(* C7: a Scan call that returns true appends at most one alteration; its    *)
(* kind is the first that applies of extraneous quote, bare quote,          *)
(* truncated record, padded record, so a record with a quote error that was *)
(* also padded or truncated is reported with the quote kind only.           *)
C7_Step ==
    ret' = "true" =>
        LET parsed == ParsePayload(Payload(w'))
            wd     == w'.s.expectedFieldCount
            old    == Alterations
            new    == Alterations'
            kind   == IF parsed.err = "ErrQuote" THEN AltExtraneousQuote
                      ELSE IF parsed.err = "ErrBareQuote" THEN AltBareQuote
                      ELSE IF Len(parsed.record) > wd THEN AltTruncatedRecord
                      ELSE IF Len(parsed.record) < wd THEN AltPaddedRecord
                      ELSE "none"
        IN  /\ Len(new) <= Len(old) + 1
            /\ IsPrefix(old, new)
            /\ kind = "none" => new = old
            /\ kind # "none" => /\ Len(new) = Len(old) + 1
                                /\ new[Len(new)].AlterationDescription = kind

C7_OneAlterationByPrecedence == [][C7_Step]_vars

(* a record that had a quote error and was padded as well *)
C7_Witness ==
    \E i \in 1..Len(Alterations) :
        /\ Alterations[i].AlterationDescription \in QuoteKinds
        /\ Len(Alterations[i].ResultingRecord) >= 1

(* C8: the RecordOrdinals of Alterations are strictly increasing, lie in    *)
(* 1..RecordCount and name the record the alteration was made to; a Scan    *)
(* call keeps the entries it finds and gives an entry it appends the        *)
(* RecordCount of the record it emits.                                      *)
C8_Ordered ==
    \A i \in 1..Len(Alterations) :
        /\ Alterations[i].RecordOrdinal \in 1..Summary.RecordCount
        /\ i > 1 => Alterations[i - 1].RecordOrdinal < Alterations[i].RecordOrdinal
        /\ Alterations[i].RecordOrdinal <= Len(emitted)
        /\ Alterations[i].ResultingRecord = emitted[Alterations[i].RecordOrdinal]

C8_Step ==
    /\ IsPrefix(Alterations, Alterations')
    /\ \A i \in (Len(Alterations) + 1)..Len(Alterations') :
           /\ ret' = "true"
           /\ Alterations'[i].RecordOrdinal = Summary'.RecordCount

C8_AppendOnlyOrdered == []C8_Ordered /\ [][C8_Step]_vars

C8_Witness ==
    /\ Len(Alterations) >= 2
    /\ Alterations[1].RecordOrdinal >= 2
    /\ ret = "false"

(* the pieces of s between the occurrences of sep, found left to right *)
RECURSIVE SplitOnFrom(_, _, _, _)
SplitOnFrom(s, sep, i, cur) ==
    IF i > Len(s)
    THEN <<cur>>
    ELSE IF i + Len(sep) - 1 <= Len(s) /\ SubSeq(s, i, i + Len(sep) - 1) = sep
    THEN <<cur>> \o SplitOnFrom(s, sep, i + Len(sep), <<>>)
    ELSE SplitOnFrom(s, sep, i + 1, Append(cur, s[i]))

SplitOn(s, sep) == SplitOnFrom(s, sep, 1, <<>>)

Has(s, c) == \E i \in 1..Len(s) : s[i] = c

Count(s, c) == Cardinality({i \in 1..Len(s) : s[i] = c})

(* records of unquoted fields, as many in each, separated by terminator t,  *)
(* none of them without payload                                            *)
WellFormed(s, t) ==
    LET P == SplitOn(s, t)
    IN  /\ ~Has(s, QUOTE)
        /\ \A i \in 1..Len(P) :
               /\ P[i] # <<>>
               /\ ~Has(P[i], LF)
               /\ ~Has(P[i], CR)
               /\ Count(P[i], COMMA) = Count(P[1], COMMA)

Records(s, t) ==
    LET P == SplitOn(s, t)
    IN  [i \in 1..Len(P) |-> SplitOn(P[i], <<COMMA>>)]

(* C2, as claimed: once Scan has returned false on a source of k records of *)
(* w unquoted fields each, separated by one terminator kind and with no     *)
(* bytes after the last record, the records emitted are those k records,    *)
(* fields unchanged, RecordCount is k, AlterationCount is 0 and EOF is set. *)
C2_RoundTrip ==
    \A t \in TerminatorKinds :
        (ret = "false" /\ ~ReaderIsNil /\ WellFormed(src, t)) =>
            /\ emitted = Records(src, t)
            /\ Summary.RecordCount = Len(Records(src, t))
            /\ Summary.AlterationCount = 0
            /\ Summary.EOF

(* the non-empty members of a sequence of pieces, in order *)
RECURSIVE NonEmpty(_)
NonEmpty(P) ==
    IF P = <<>> THEN <<>>
    ELSE IF Head(P) = <<>> THEN NonEmpty(Tail(P))
    ELSE <<Head(P)>> \o NonEmpty(Tail(P))

(* the source starts with a terminator or holds two terminators in a row *)
HasEmptyRun(s) ==
    \/ Len(s) >= 1 /\ s[1] = LF
    \/ \E i \in 1..(Len(s) - 1) : s[i] = LF /\ s[i + 1] = LF

(* the lines with payload of a source of unquoted fields ended by LF *)
PayloadLines(s) == NonEmpty(SplitOn(s, nl))

SameWidth(P) == \A i \in 1..Len(P) : Count(P[i], COMMA) = Count(P[1], COMMA)

(* C9, as claimed: once Scan has returned false on a source of unquoted     *)
(* records of one width that holds runs of LF without payload, the records  *)
(* emitted are the lines with payload, fields unchanged, RecordCount is     *)
(* their number and no alteration is recorded.                              *)
C9_EmptyRecordsSkipped ==
    (/\ ret = "false"
     /\ ~ReaderIsNil
     /\ ~Has(src, QUOTE)
     /\ ~Has(src, CR)
     /\ HasEmptyRun(src)
     /\ SameWidth(PayloadLines(src))) =>
        /\ emitted = [i \in 1..Len(PayloadLines(src)) |->
                          SplitOn(PayloadLines(src)[i], <<COMMA>>)]
        /\ Summary.RecordCount = Len(PayloadLines(src))
        /\ Alterations = <<>>

(* C10: on a scanner created with a nil reader no Scan returns true, the    *)
(* current record stays nil, nothing is emitted, once a Scan has returned   *)
(* the summary is RecordCount -1, AlterationCount -1, EOF false, Err        *)
(* ErrReaderIsNil and no alterations, and Partition returns no segment.     *)
C10_NilSource ==
    ReaderIsNil =>
        /\ ret # "true"
        /\ w.s.currentRecordNil
        /\ emitted = <<>>
        /\ segments = <<>>
        /\ ret = "false" =>
               Summary = [isNil |-> FALSE, RecordCount |-> -1, AlterationCount |-> -1,
                          Alterations |-> <<>>, EOF |-> FALSE, Err |-> ErrReaderIsNil]

C10_Witness ==
    /\ ReaderIsNil
    /\ op = "partition"
    /\ Summary.Err = ErrReaderIsNil

CurrentRecord == w.s.currentRecord

(* C11, as claimed: on a non-nil source the first Scan returns true (so no  *)
(* Scan has returned while nothing is emitted), and on the empty source     *)
(* the one record emitted and current is [""], RecordCount is 1 and no      *)
(* second record follows.                                                   *)
C11_FirstScanTrue ==
    (~ReaderIsNil /\ ret # "none") =>
        /\ Len(emitted) >= 1
        /\ src = <<>> =>
               /\ emitted = << << <<>> >> >>
               /\ CurrentRecord = << <<>> >>
               /\ ~w.s.currentRecordNil
               /\ Summary.RecordCount = 1

(* C12, as claimed: after a Scan call on a non-nil source that returned     *)
(* false, the EOF field of the summary is true.                             *)
C12_FalseSetsEOF ==
    (~ReaderIsNil /\ op = "scan" /\ ret = "false") => Summary.EOF

(* C13: once a Scan call has returned false, the next Scan call returns     *)
(* false too and leaves the current record, RecordCount, AlterationCount    *)
(* and Alterations as they were.                                            *)
C13_Step ==
    (ret = "false" /\ op' = "scan") =>
        /\ ret' = "false"
        /\ CurrentRecord' = CurrentRecord
        /\ w'.s.currentRecordNil = w.s.currentRecordNil
        /\ emitted' = emitted
        /\ Summary'.RecordCount = Summary.RecordCount
        /\ Summary'.AlterationCount = Summary.AlterationCount
        /\ Summary'.Alterations = Summary.Alterations

C13_CompleteForGood == [][C13_Step]_vars

(* a second false return: the standard library scanner is done although    *)
(* the false return before it came from the empty-record test               *)
C13_Witness ==
    /\ ret = "false"
    /\ ~ReaderIsNil
    /\ Len(emitted) >= 1
    /\ ~Summary.EOF
    /\ w.s.scanner.done

(* C14, as claimed: the summary is nil exactly when no Scan has been called *)
(* since the scanner was made or since the last Reset, and after a Reset    *)
(* the scanner counts its records from zero again.                          *)
C14_SummaryNilUntilScan ==
    /\ Summary.isNil <=> op \in {"new", "reset"}
    /\ op = "reset" => (w.s.recordsScanned = 0 /\ w.s.expectedFieldCount = 0)

Fit(record, n) == [j \in 1..n |-> IF j <= Len(record) THEN record[j] ELSE <<>>]

(* the records the lines with payload of s stand for, at the width of the   *)
(* first of them                                                            *)
DataRecords(s) ==
    LET P == PayloadLines(s)
    IN  [i \in 1..Len(P) |->
            Fit(SplitOn(P[i], <<COMMA>>), Len(SplitOn(P[1], <<COMMA>>)))]

(* a source of unquoted fields and LF terminators whose last data record    *)
(* is followed by one LF                                                    *)
OneTrailingLF(s) ==
    /\ ~Has(s, QUOTE)
    /\ ~Has(s, CR)
    /\ Len(s) >= 2
    /\ s[Len(s)] = LF
    /\ s[Len(s) - 1] # LF

LeadingLF(s) ==
    /\ ~Has(s, QUOTE)
    /\ ~Has(s, CR)
    /\ Len(s) >= 2
    /\ s[1] = LF
    /\ PayloadLines(s) # <<>>

IsTerminatorByte(c) == c \in {LF, CR}

(* the maximal runs of bytes of s that are not CR or LF, empty ones too *)
RECURSIVE PayloadRunsFrom(_, _, _)
PayloadRunsFrom(s, i, cur) ==
    IF i > Len(s)
    THEN <<cur>>
    ELSE IF IsTerminatorByte(s[i])
    THEN <<cur>> \o PayloadRunsFrom(s, i + 1, <<>>)
    ELSE PayloadRunsFrom(s, i + 1, Append(cur, s[i]))

PayloadRuns(s) == NonEmpty(PayloadRunsFrom(s, 1, <<>>))

(* records of unquoted fields, as many in each, separated by one LF, CR,    *)
(* CRLF or LFCR each, with no terminator before the first or after the last *)
MixedTerminators(s) ==
    /\ ~Has(s, QUOTE)
    /\ Len(s) >= 1
    /\ ~IsTerminatorByte(s[1])
    /\ ~IsTerminatorByte(s[Len(s)])
    /\ \A i \in 1..(Len(s) - 1) :
           (IsTerminatorByte(s[i]) /\ IsTerminatorByte(s[i + 1])) =>
               /\ s[i] # s[i + 1]
               /\ ~IsTerminatorByte(s[i - 1])
               /\ ~IsTerminatorByte(s[i + 2])
    /\ SameWidth(PayloadRuns(s))

(* a CR that is a terminator of its own with an LF somewhere after it *)
BareCRBeforeLF(s) ==
    \E i \in 1..Len(s) :
        /\ s[i] = CR
        /\ (i > 1 => s[i - 1] # LF)
        /\ (i < Len(s) => s[i + 1] # LF)
        /\ \E j \in (i + 1)..Len(s) : s[j] = LF

RecordsOfRuns(s) ==
    [i \in 1..Len(PayloadRuns(s)) |-> SplitOn(PayloadRuns(s)[i], <<COMMA>>)]

NoTerminatorInFields ==
    \A i \in 1..Len(emitted) : \A j \in 1..Len(emitted[i]) :
        ~Has(emitted[i][j], LF) /\ ~Has(emitted[i][j], CR)

CurrentAlteration ==
    IF Alterations # <<>> /\ Alterations[Len(Alterations)].RecordOrdinal = Summary.RecordCount
    THEN Alterations[Len(Alterations)].AlterationDescription
    ELSE "none"

(* the CR and LF bytes of s, in order *)
TerminatorBytes(s) == SelectSeq(s, IsTerminatorByte)

(* a payload that is one quoted field with no double quote inside *)
QuotedField(p) ==
    /\ Len(p) >= 2
    /\ p[1] = QUOTE
    /\ p[Len(p)] = QUOTE
    /\ ~Has(SubSeq(p, 2, Len(p) - 1), QUOTE)

Unquoted(p) == SubSeq(p, 2, Len(p) - 1)

(* C19: after a Scan that returned true, the terminator selected for the    *)
(* raw record has an even number of double quotes before it in the raw      *)
(* record; and when the record was neither nullified nor truncated the CR   *)
(* and LF bytes of its payload are the CR and LF bytes of its fields, in    *)
(* the same order, a payload that is one quoted field giving that field     *)
(* with its CR and LF bytes unchanged.                                      *)
C19_QuotedTerminators ==
    (~ReaderIsNil /\ ret = "true") =>
        /\ Len(w.s.splitter.currentTerminator) > 0 =>
               /\ HasSuffix(Text(w), w.s.splitter.currentTerminator)
               /\ Count(Payload(w), QUOTE) % 2 = 0
        /\ CurrentAlteration \in {"none", AltPaddedRecord} =>
               /\ TerminatorBytes(Concat(CurrentRecord)) = TerminatorBytes(Payload(w))
               /\ QuotedField(Payload(w)) => CurrentRecord[1] = Unquoted(Payload(w))

C19_Witness ==
    /\ ~ReaderIsNil
    /\ ret = "true"
    /\ w.s.splitter.currentTerminator = nl
    /\ Payload(w) = <<QUOTE, LF, QUOTE>>
    /\ CurrentRecord = << <<LF>> >>

(* the window the last Split call was given: the raw record it returned    *)
(* and the bytes it left in the buffer                                      *)
Window == Text(w) \o w.s.scanner.buf

(* the byte at 1-based position i of s belongs to an adjacent CR LF or LF   *)
(* CR pair of s                                                             *)
InCompositePair(s, i) ==
    \/ i > 1 /\ IsTerminatorByte(s[i - 1]) /\ s[i - 1] # s[i]
    \/ i < Len(s) /\ IsTerminatorByte(s[i + 1]) /\ s[i + 1] # s[i]

(* C20, as claimed: after a Scan that returned true on a raw record with a  *)
(* one-byte terminator, that byte is not part of an adjacent CRLF or LFCR   *)
(* pair of the window Split was given (the pair is not quoted: the number   *)
(* of double quotes before the terminator is even).                         *)
C20_CompositeHasPriority ==
    (~ReaderIsNil /\ ret = "true" /\ Len(w.s.splitter.currentTerminator) = 1) =>
        ~InCompositePair(Window, Len(Text(w)))

(* C21: the segments a Partition call returned have the Ordinals 1, 2, ...  *)
(* in order, each starts where the one before it ends, and each has a       *)
(* positive Length, so their byte ranges are disjoint and increasing.       *)
C21_SegmentsContiguous ==
    \A i \in 1..Len(segments) :
        /\ segments[i].Ordinal = i
        /\ segments[i].Length > 0
        /\ segments[i].LowerOffset >= 0
        /\ i > 1 => segments[i].LowerOffset =
                        segments[i - 1].LowerOffset + segments[i - 1].Length

C21_Witness ==
    /\ op = "partition"
    /\ Len(segments) = 2
    /\ segments[2].Length = 2

(* the offset at which the last of the segments ss ends *)
SegmentsEnd(ss) == ss[Len(ss)].LowerOffset + ss[Len(ss)].Length

(* every byte of s from offset i on is a CR or an LF *)
OnlyTerminatorsFrom(s, i) == \A j \in (i + 1)..Len(s) : IsTerminatorByte(s[j])

(* the first call on a new scanner over a source without double quotes is   *)
(* a Partition call                                                         *)
FirstCallIsPartition ==
    /\ op = "new"
    /\ op' = "partition"
    /\ ~ReaderIsNil
    /\ ~Has(src, QUOTE)

(* C22, as claimed: after Partition on a new scanner the segments end       *)
(* within the source and every byte after them is a terminator; when there  *)
(* is no segment and no header was set aside, the whole source is made of   *)
(* terminators.                                                             *)
C22_CoverageStep ==
    FirstCallIsPartition =>
        /\ segments' # <<>> =>
               /\ SegmentsEnd(segments') <= Len(src)
               /\ OnlyTerminatorsFrom(src, SegmentsEnd(segments'))
        /\ (segments' = <<>> /\ emitted' = <<>>) => OnlyTerminatorsFrom(src, 0)

C22_Coverage == [][C22_CoverageStep]_vars

(* C23: the first call on a source of k >= 2 well-formed records separated  *)
(* by one terminator kind, with no bytes after the last record: Partition   *)
(* (k, false) returns the one segment {1, 0, total bytes}; Partition(k,     *)
(* true), with a header check that accepts the first record, returns the    *)
(* one segment that starts after the header's raw record and runs to the    *)
(* end of the source.                                                       *)
RawHeaderLength(s, t) == Len(SplitOn(s, t)[1]) + Len(t)

C23_Step ==
    \A t \in TerminatorKinds :
        (/\ FirstCallIsPartition
         /\ WellFormed(src, t)
         /\ Len(SplitOn(src, t)) >= 2
         /\ args'.n = Len(SplitOn(src, t))) =>
            /\ ~args'.excludeHeader =>
                   segments' = <<Segment(1, 0, Len(src))>>
            /\ (args'.excludeHeader /\ w.s.headerCheck = "AssumeHeaderExists") =>
                   segments' = <<Segment(1, RawHeaderLength(src, t),
                                         Len(src) - RawHeaderLength(src, t))>>

C23_PartitionRoundTrip == [][C23_Step]_vars

C23_Witness ==
    /\ op = "partition"
    /\ src = <<"a", CR, LF, "a">>
    /\ emitted = Records(src, dos)
    /\ args.n = 2
    /\ args.excludeHeader
    /\ w.s.headerCheck = "AssumeHeaderExists"
    /\ segments = <<Segment(1, 3, 1)>>

(* C24, as claimed: a Partition(n, excludeHeader) call puts the m records its scan      *)
(* emits, the excluded header left out, into ceil(m / n) segments; when the *)
(* call is the first on a source of unquoted LF-terminated lines, every     *)
(* segment but the last covers exactly n lines with payload and the last    *)
(* between 1 and n; a source of terminators only yields no segment.         *)
EmittedByCall == Len(emitted') - Len(emitted)

HeaderExcludedByCall ==
    /\ args'.excludeHeader
    /\ w.s.headerCheck = "AssumeHeaderExists"
    /\ w.s.recordsScanned = 0
    /\ EmittedByCall >= 1

SegmentedByCall == EmittedByCall - (IF HeaderExcludedByCall THEN 1 ELSE 0)

Ceil(m, n) == (m + n - 1) \div n

SegmentBytes(s, segment) ==
    Slice(s, segment.LowerOffset, segment.LowerOffset + segment.Length)

C24_Step ==
    op' = "partition" =>
        /\ Len(segments') = Ceil(SegmentedByCall, args'.n)
        /\ OnlyTerminatorsFrom(src, 0) => segments' = <<>>
        /\ (FirstCallIsPartition /\ ~Has(src, CR)) =>
               \A i \in 1..Len(segments') :
                   LET lines == Len(PayloadLines(SegmentBytes(src, segments'[i])))
                   IN  IF i < Len(segments')
                       THEN lines = args'.n
                       ELSE lines \in 1..args'.n

C24_RecordsPerSegment == [][C24_Step]_vars

(* C25: in a Partition call that excludes the header and whose first record *)
(* is a header, that record and no other is left out of the segments, and   *)
(* on a source without quotes the first segment starts right behind the     *)
(* header's raw record: the bytes before it are terminators skipped ahead   *)
(* of the header, the header's payload and its terminator. In a call that   *)
(* does not exclude the header every record is in a segment and the first   *)
(* segment starts at offset 0.                                              *)
EndsHeader(s, header, k) ==
    \E a \in 0..k : \E b \in a..k :
        /\ \A i \in 1..a : IsTerminatorByte(s[i])
        /\ SplitOn(Slice(s, a, b), <<COMMA>>) = header
        /\ Slice(s, b, k) \in TerminatorKinds

C25_Step ==
    op' = "partition" =>
        /\ HeaderExcludedByCall =>
               /\ Len(segments') = Ceil(EmittedByCall - 1, args'.n)
               /\ (segments' # <<>> /\ ~Has(src, QUOTE)) =>
                      EndsHeader(src, emitted'[Len(emitted) + 1],
                                 segments'[1].LowerOffset)
        /\ ~args'.excludeHeader =>
               /\ Len(segments') = Ceil(EmittedByCall, args'.n)
               /\ segments' # <<>> => segments'[1].LowerOffset = 0

C25_HeaderExclusion == [][C25_Step]_vars

C25_Witness ==
    /\ op = "partition"
    /\ args.excludeHeader
    /\ w.s.headerCheck = "AssumeHeaderExists"
    /\ src = <<LF, "a", LF, "a">>
    /\ segments = <<Segment(1, 3, 1)>>

(* the number of terminator bytes a source starts with *)
RECURSIVE LeadingTerminators(_)
LeadingTerminators(s) ==
    IF s # <<>> /\ IsTerminatorByte(Head(s))
    THEN 1 + LeadingTerminators(Tail(s))
    ELSE 0

(* the first call is a Partition call on a source that starts with          *)
(* terminators ahead of its first data record, and it returns a segment     *)
PartitionOfLeadingTerminators ==
    /\ op = "new"
    /\ op' = "partition"
    /\ LeadingTerminators(src) \in 1..(Len(src) - 1)
    /\ segments' # <<>>

(* C26, as claimed: whether or not a header is excluded, the first segment  *)
(* covers the terminators the source starts with: it starts at offset 0 and *)
(* its Length counts them.                                                  *)
C26_Step ==
    PartitionOfLeadingTerminators =>
        /\ segments'[1].LowerOffset = 0
        /\ segments'[1].Length >= LeadingTerminators(src)

C26_LeadingInFirstSegment == [][C26_Step]_vars

(* C26, corrected: when no header is excluded the first segment starts at   *)
(* offset 0 and its Length counts the leading terminators; when a header is *)
(* excluded, on a source without quotes, the first segment starts right     *)
(* behind the terminators skipped ahead of the header and the header's raw  *)
(* record, so no segment counts them; leading LFs are all skipped that way. *)
C26_StepByHeader ==
    PartitionOfLeadingTerminators =>
        IF HeaderExcludedByCall
        THEN ~Has(src, QUOTE) =>
                 /\ EndsHeader(src, emitted'[Len(emitted) + 1],
                               segments'[1].LowerOffset)
                 /\ ~Has(Slice(src, 0, LeadingTerminators(src)), CR) =>
                        segments'[1].LowerOffset > LeadingTerminators(src)
        ELSE /\ segments'[1].LowerOffset = 0
             /\ segments'[1].Length >= LeadingTerminators(src)

C26_LeadingByHeader == [][C26_StepByHeader]_vars

C26_Witness ==
    /\ op = "partition"
    /\ args.excludeHeader
    /\ w.s.headerCheck = "AssumeHeaderExists"
    /\ src = <<LF, "a", LF, ",">>
    /\ segments = <<Segment(1, 3, 1)>>

(* C27, as claimed: when the first call is a Partition call on a source     *)
(* without quotes that ends with terminators behind its last data record,   *)
(* the last segment ends at the end of the source.                          *)
DanglingTerminators(s) ==
    /\ s # <<>>
    /\ IsTerminatorByte(s[Len(s)])
    /\ \E i \in 1..Len(s) : ~IsTerminatorByte(s[i])

C27_Step ==
    (FirstCallIsPartition /\ DanglingTerminators(src) /\ segments' # <<>>) =>
        SegmentsEnd(segments') = Len(src)

C27_DanglingAbsorbed == [][C27_Step]_vars

(* C28, as claimed: whatever was called before it, a Partition call returns *)
(* the segments it returns as the first call on a new scanner over the same *)
(* source with the same header check.                                       *)
FreshScanner == [s |-> NewScanner(w.s.reader, w.s.headerCheck), pos |-> 0]

C28_Step ==
    op' = "partition" =>
        segments' = PartitionOp(FreshScanner, args'.n, args'.excludeHeader).segments

C28_PartitionResets == [][C28_Step]_vars

(* the standard library scanner has been handed the reader's own error *)
ReadErrorObserved == readErr # -1 /\ w.s.scanner.err

(* C29, as claimed: once Scan has observed an error of the reader's Read,   *)
(* Summary().Err is that error.                                             *)
C29_ReadErrorInSummary ==
    (op = "scan" /\ ReadErrorObserved) => Summary.Err # "nil"

(* C30, as claimed: once a Scan call has observed an error of the reader's Read, every  *)
(* later Scan call returns false, leaves the current record as it is, has   *)
(* EOF set when it returns and leaves Summary().Err nil; Err is not nil     *)
(* only when the reader is nil, and then it is ErrReaderIsNil.              *)
C30_Step ==
    /\ (op = "scan" /\ ReadErrorObserved) =>
           /\ ret' = "false"
           /\ CurrentRecord' = CurrentRecord
           /\ Summary'.EOF
           /\ Summary'.Err = "nil"
    /\ Summary'.Err # "nil" => (ReaderIsNil /\ Summary'.Err = ErrReaderIsNil)

C30_ReadFailureEndsScan == [][C30_Step]_vars

(* a complete scan of the source that is the single byte '"' *)
ScannedOneQuote ==
    /\ ~ReaderIsNil
    /\ readErr = -1
    /\ src = <<QUOTE>>
    /\ op = "scan"
    /\ ret = "false"

OneExtraneousQuoteAlteration ==
    /\ Summary.AlterationCount = 1
    /\ Len(Alterations) = 1
    /\ Alterations[1].RecordOrdinal = 1
    /\ Alterations[1].AlterationDescription = AltExtraneousQuote
    /\ Alterations[1].OriginalData = <<QUOTE>>

(* C31, as claimed: scanning the source '"' emits exactly one record, the   *)
(* record of one empty field, and the summary holds exactly one alteration: *)
(* RecordOrdinal 1, extraneous quote, OriginalData '"'.                     *)
C31_OneQuoteOneEmptyField ==
    ScannedOneQuote =>
        /\ emitted = << << <<>> >> >>
        /\ OneExtraneousQuoteAlteration

(* C31, corrected: the one record emitted has no fields, and it is the      *)
(* ResultingRecord of the alteration.                                       *)
C31_OneQuoteNoFields ==
    ScannedOneQuote =>
        /\ emitted = << <<>> >>
        /\ CurrentRecord = <<>>
        /\ ~w.s.currentRecordNil
        /\ Summary.RecordCount = 1
        /\ OneExtraneousQuoteAlteration
        /\ Alterations[1].ResultingRecord = <<>>

C31_Witness ==
    /\ ScannedOneQuote
    /\ Len(emitted) = 1
    /\ Summary.EOF

(* a direct Split call was made at the end of the input on a window that    *)
(* holds bytes                                                              *)
SplitAtEOF ==
    /\ call.fn = "Split"
    /\ call.atEOF
    /\ call.data # <<>>

NoTerminatorByte(s) == \A i \in 1..Len(s) : ~IsTerminatorByte(s[i])

NoNonQuotedTerminator(s) == \A t \in TerminatorKinds : IndexNonQuoted(s, t) = -1

(* s is a payload without quotes and terminator bytes followed by the       *)
(* terminator t and nothing else                                            *)
EndsWithOnly(s, t) ==
    /\ HasSuffix(s, t)
    /\ NoTerminatorByte(Slice(s, 0, Len(s) - Len(t)))
    /\ ~Has(s, QUOTE)

(* C32, as claimed: at the end of the input Split never answers 'need more' *)
(* for a window that holds bytes; a window that ends with its only          *)
(* terminator is emitted whole with that terminator, and a window without   *)
(* a non-quoted terminator is the final token with the empty terminator.    *)
C32_NoNeedMoreAtEOF ==
    SplitAtEOF =>
        /\ call.result # NeedMore
        /\ \A t \in TerminatorKinds :
               EndsWithOnly(call.data, t) =>
                   call.result = SplitResult(Len(call.data), call.data, FALSE,
                                             "nil", t, FALSE)
        /\ NoNonQuotedTerminator(call.data) =>
               call.result = SplitResult(0, call.data, FALSE, "ErrFinalToken",
                                         <<>>, FALSE)

(* a direct Split call was made before the end of the input *)
SplitBeforeEOF ==
    /\ call.fn = "Split"
    /\ ~call.atEOF

(* the Split call returned a token and a terminator, and no error *)
Emits(r) ==
    /\ r.err = "nil"
    /\ ~r.tokenNil
    /\ ~r.termNil
    /\ r.advance >= 1

(* C33: before the end of the input Split either answers 'need more' or     *)
(* emits. It answers 'need more' when the window holds no non-quoted        *)
(* terminator, and otherwise only when the terminator it selects ends the   *)
(* window: a two-byte terminator at len(data)-2, LF or CR at len(data)-1.   *)
(* What it emits ends before the end of the window.                         *)
C33_NeedMoreBeforeEOF ==
    SplitBeforeEOF =>
        LET data == call.data
            r    == call.result
        IN  /\ r = NeedMore \/ Emits(r)
            /\ NoNonQuotedTerminator(data) => r = NeedMore
            /\ (r = NeedMore /\ ~NoNonQuotedTerminator(data)) =>
                   \E t \in TerminatorKinds :
                       /\ HasSuffix(data, t)
                       /\ IndexNonQuoted(data, t) = Len(data) - Len(t)
            /\ Emits(r) =>
                   /\ r.advance < Len(data)
                   /\ r.token = Slice(data, 0, r.advance)
                   /\ HasSuffix(r.token, r.terminator)
            /\ (~NoNonQuotedTerminator(data) /\ ~IsTerminatorByte(data[Len(data)])) =>
                   Emits(r)

C33_Witness ==
    /\ SplitBeforeEOF
    /\ call.data = <<"a", LF, CR, "a", CR>>
    /\ call.result = SplitResult(3, <<"a", LF, CR>>, FALSE, "nil", invdos, FALSE)

(* the Split call returned the final token *)
Final(r) == r.err = "ErrFinalToken"

(* C34: a Split call that emits returns advance = len(token) >= 1 and       *)
(* token = data[:advance], and leaves as CurrentTerminator one of LF, CR,   *)
(* CRLF, LFCR, which are the last bytes of the token; a call that returns   *)
(* the final token leaves the empty, non-nil CurrentTerminator when data is *)
(* not nil and nil when data is nil; 'need more' leaves it nil.             *)
C34_SplitterContract ==
    call.fn = "Split" =>
        LET r == call.result
        IN  /\ r = NeedMore \/ Emits(r) \/ Final(r)
            /\ Emits(r) =>
                   /\ r.advance = Len(r.token)
                   /\ r.token = Slice(call.data, 0, r.advance)
                   /\ r.terminator \in TerminatorKinds
                   /\ HasSuffix(r.token, r.terminator)
            /\ Final(r) =>
                   /\ call.atEOF
                   /\ r.advance = 0
                   /\ r.token = call.data
                   /\ r.tokenNil = call.dataNil
                   /\ r.terminator = <<>>
                   /\ r.termNil = call.dataNil
            /\ r = NeedMore => r.termNil

C34_Witness ==
    /\ call.fn = "Split"
    /\ call.atEOF
    /\ call.data = <<CR, "a", CR, LF, "a">>
    /\ Emits(call.result)
    /\ call.result.terminator = nl

(* C35: a Split call that emits with the terminator CR was given a window   *)
(* without a non-quoted LF; one that emits with a one-byte terminator on a  *)
(* window that holds a non-quoted LF ends the token at the first non-quoted *)
(* LF, and a non-quoted CR ahead of that LF is inside the token's payload.  *)
C35_LFBeforeCR ==
    (call.fn = "Split" /\ Emits(call.result)) =>
        LET r            == call.result
            newlineIndex == IndexNonQuoted(call.data, nl)
        IN  /\ r.terminator = cr => newlineIndex = -1
            /\ (Len(r.terminator) = 1 /\ newlineIndex # -1) =>
                   /\ r.terminator = nl
                   /\ r.advance = newlineIndex + 1
                   /\ r.token = Slice(call.data, 0, newlineIndex + 1)

C35_Witness ==
    /\ call.fn = "Split"
    /\ call.data = <<"a", CR, "a", LF, "a">>
    /\ call.result = SplitResult(4, <<"a", CR, "a", LF>>, FALSE, "nil", nl, FALSE)

(* the raw records Split cuts from data when the whole of it is in the      *)
(* window, each with its terminator                                         *)
RECURSIVE WholeTokensFrom(_, _)
WholeTokensFrom(data, r) ==
    IF Emits(r)
    THEN <<[token |-> r.token, terminator |-> r.terminator]>>
             \o (IF r.advance = Len(data) THEN <<>>
                 ELSE WholeTokensFrom(Slice(data, r.advance, Len(data)),
                                      Split(Slice(data, r.advance, Len(data)), TRUE)))
    ELSE IF Final(r)
    THEN <<[token |-> r.token, terminator |-> r.terminator]>>
    ELSE <<>>

WholeTokens(data) == IF data = <<>> THEN <<>> ELSE WholeTokensFrom(data, Split(data, TRUE))

(* the length of the first i of the tokens ts together *)
RECURSIVE TokensEnd(_, _)
TokensEnd(ts, i) == IF i = 0 THEN 0 ELSE Len(ts[i].token) + TokensEnd(ts, i - 1)

(* the bytes of the source the standard library scanner has turned into     *)
(* tokens so far; the final token is handed over without an advance         *)
Consumed == IF w.s.scanner.done THEN w.pos ELSE w.pos - Len(w.s.scanner.buf)

(* C37, as claimed: however the reader delivers the bytes, the raw record   *)
(* of every record Scan emits and the terminator selected for it are those  *)
(* Split selects at that offset when it is given the whole source at once.  *)
C37_DeliveryIndependent ==
    (~ReaderIsNil /\ op = "scan" /\ ret = "true") =>
        \E i \in 1..Len(WholeTokens(src)) :
            /\ TokensEnd(WholeTokens(src), i) = Consumed
            /\ WholeTokens(src)[i].token = Text(w)
            /\ WholeTokens(src)[i].terminator = w.s.splitter.currentTerminator

(* the positions of s where substr occurs after an even number of quotes *)
NonQuotedMatches(s, substr) ==
    {i \in 0..(Len(s) - Len(substr)) :
        /\ Slice(s, i, i + Len(substr)) = substr
        /\ Count(Slice(s, 0, i), QUOTE) % 2 = 0}

Least(I) == IF I = {} THEN -1 ELSE CHOOSE i \in I : \A j \in I : i <= j

(* C36: for a terminator substr, IndexNonQuoted(s, substr) is the smallest  *)
(* index where substr occurs in s with an even number of double quotes      *)
(* before it, and -1 when there is none; and when no terminator has such an *)
(* occurrence in a window, Split at the end of the input returns the whole  *)
(* window as the final token.                                               *)
C36_FirstNonQuoted ==
    /\ call.fn = "IndexNonQuoted" =>
           call.result = Least(NonQuotedMatches(call.s, call.substr))
    /\ (/\ call.fn = "Split"
        /\ call.atEOF
        /\ ~call.dataNil
        /\ \A t \in TerminatorKinds : NonQuotedMatches(call.data, t) = {}) =>
           /\ Final(call.result)
           /\ ~call.result.tokenNil
           /\ call.result.token = call.data

(* a terminator that only occurs inside an unclosed quote is not found, and *)
(* one that occurs both inside and after a quoted region is found after it  *)
C36_Witness ==
    /\ call.fn = "IndexNonQuoted"
    /\ call.substr = nl
    /\ \/ call.s = <<QUOTE, LF, QUOTE, LF>> /\ call.result = 3
       \/ call.s = <<"a", QUOTE, LF>> /\ call.result = -1

(* C39, as claimed: ResetTerminatorTokens applied to the one-element list   *)
(* that holds TokenizeTerminators(s) yields the one-element list that holds *)
(* s, for every text s.                                                     *)
C39_ResetInvertsTokenize ==
    call.fn = "ResetTerminatorTokens" => call.result = <<call.s>>

(* a Scan call returns true *)
ScanReturnsTrue == op # "scan" /\ op' = "scan" /\ ret' = "true"

(* the loops of SpecL compute what Scan and Partition compute as a whole *)
LoopsAgree ==
    /\ (op = "scan" /\ call.fn = "Scan") =>
           [w |-> w, ret |-> ret = "true"] = ScanOp(call.x)
    /\ (op = "partition" /\ call.fn = "Partition") =>
           /\ w = PartitionOp(call.x, call.n, call.excludeHeader).w
           /\ segments = PartitionOp(call.x, call.n, call.excludeHeader).segments

(* a turn of the loop that skips empty records changes the scanner or the   *)
(* answer of s.scanner.Scan()                                               *)
SkipAdvances ==
    (op = "scanning" /\ SkipsRecord(w, call.more)) =>
        ScanSkipTurn(w) # [w |-> w, ret |-> call.more]

(* C38: every turn of the loop that skips empty records advances and every  *)
(* Scan call returns, so the loop exits; every Partition call returns; and  *)
(* Scan returns true only a finite number of times, so the Scan calls that  *)
(* follow return false.                                                     *)
C38_Termination ==
    /\ []SkipAdvances
    /\ []LoopsAgree
    /\ (op = "scanning") ~> (op = "scan")
    /\ (op = "partitioning") ~> (op = "partition")
    /\ <>[][~ScanReturnsTrue]_vars

(* records were emitted and then a Scan call, whose loop skipped an empty   *)
(* record, returned false                                                   *)
C38_Witness ==
    /\ op = "scan"
    /\ ret = "false"
    /\ call.fn = "Scan"
    /\ call.looped
    /\ emitted # <<>>
====
